---- MODULE Spec2Model ----
(***************************************************************************)
(* Mux webhook receiver of NewTube: src/app/api/videos/webhook/route.ts.   *)
(* One invocation of POST is a process that walks through the handler's    *)
(* suspension points (record-store and asset-storage calls); the record    *)
(* store (table videos) and the owned asset storage are the shared state.  *)
(***************************************************************************)
EXTENDS Integers, Sequences, FiniteSets, TLC

VARIABLES
    SIGNING_SECRET, \* process.env.MUX_WEBHOOK_SECRET, read once at module load
    videos,         \* the rows of table videos
    files,          \* keys of the files held by the asset storage (UploadThing)
    nextKey,        \* number of files the asset storage has accepted so far
    clock,          \* number of requests received so far; what new Date() reads
    prev,           \* the last request answered, with its response
    inv             \* per invocation: position, request, locals, response

vars == <<SIGNING_SECRET, videos, files, nextKey, clock, prev, inv>>

\* -------------------------------------------------------------------------
\* Bounds and input domains

\* Number of requests delivered in one behaviour.
MaxEvents == 2

\* The invocations that can be in flight; the sequential specifications use one.
Procs == {"p1", "p2"}
SeqProc == "p1"

Absent == "undefined"   \* a JS undefined: a missing key, an unset local
Null == "null"          \* an SQL NULL column

SecretKey == "whsec_mux"
ForeignKey == "whsec_other"

UploadIds == {"up_1", "up_2"}
\* The uploads that have a row when the flow starts.
InitialUploads == {{}, {"up_1"}, {"up_1", "up_2"}}
AssetIds == {"asset_1", "asset_2"}
TrackIds == {"track_1"}
PlaybackIdLists == {<<>>, <<"pb_1", "pb_2">>}
\* data.duration in units of 1/10000 s; <<>> is a missing duration.
\* 125005 is 12.5005 s, -15 is -0.0015 s.
Durations == {<<>>, <<125005>>, <<-15>>}

HandledTypes == {"video.asset.created", "video.asset.ready", "video.asset.errored",
                 "video.asset.deleted", "video.asset.track.ready"}

\* payload.data: object is FALSE when the payload has no data at all, so that
\* reading a field of it raises a TypeError.
NoData == [object |-> TRUE, upload_id |-> Absent, id |-> Absent, status |-> Absent,
           playback_ids |-> <<>>, duration |-> <<>>, asset_id |-> Absent]

CreatedEvents ==
    {[type |-> "video.asset.created",
      data |-> [NoData EXCEPT !.upload_id = u, !.id = a, !.status = "preparing"]] :
        u \in UploadIds \cup {Absent}, a \in AssetIds \cup {Absent}}

ReadyEvents ==
    {[type |-> "video.asset.ready",
      data |-> [NoData EXCEPT !.upload_id = u, !.id = a, !.status = "ready",
                              !.playback_ids = pb, !.duration = d]] :
        u \in UploadIds \cup {Absent}, a \in AssetIds,
        pb \in PlaybackIdLists, d \in Durations}

ErroredEvents ==
    {[type |-> "video.asset.errored",
      data |-> [NoData EXCEPT !.upload_id = u, !.status = st]] :
        u \in UploadIds \cup {Absent}, st \in {"errored", Absent}}

DeletedEvents ==
    {[type |-> "video.asset.deleted",
      data |-> [NoData EXCEPT !.upload_id = u]] : u \in UploadIds \cup {Absent}}

TrackReadyEvents ==
    {[type |-> "video.asset.track.ready",
      data |-> [NoData EXCEPT !.asset_id = a, !.id = t, !.status = "ready"]] :
        a \in AssetIds \cup {Absent}, t \in TrackIds \cup {Absent}}

OtherEvents ==
    {[type |-> "video.upload.created", data |-> [NoData EXCEPT !.id = "up_1"]],
     [type |-> Absent, data |-> NoData]}

\* Events that carry a type and nothing else.
DataLessEvents ==
    {[type |-> t, data |-> [NoData EXCEPT !.object = FALSE]] :
        t \in HandledTypes \cup {"video.upload.created"}}

Payloads == CreatedEvents \cup ReadyEvents \cup ErroredEvents \cup DeletedEvents
            \cup TrackReadyEvents \cup OtherEvents \cup DataLessEvents

\* A request body: text that is no JSON, or the JSON text of a payload with
\* ws insignificant whitespace characters between its tokens.
MalformedBody == [kind |-> "malformed", payload |-> [type |-> Absent, data |-> NoData], ws |-> 0]

\* The mux-signature header: <<>> when missing, else the HMAC of a text under a key.
Sign(key, text) == <<[key |-> key, signed |-> text]>>

\* The JSON text of a payload with ws whitespace characters.
JsonBody(p, ws) == [kind |-> "json", payload |-> p, ws |-> ws]

\* What arrives on the wire. A sender signs the body it sends with a key it
\* holds: the provider with the shared secret, in compact or in spaced form;
\* anyone else with no signature or with a key of their own.
Requests ==
    {[sig |-> Sign(SecretKey, JsonBody(p, w)), body |-> JsonBody(p, w)] :
        p \in Payloads, w \in {0, 1}} \cup
    {[sig |-> <<>>, body |-> JsonBody(p, 0)] : p \in Payloads} \cup
    {[sig |-> Sign(ForeignKey, JsonBody(p, 0)), body |-> JsonBody(p, 0)] : p \in Payloads} \cup
    {[sig |-> <<>>, body |-> MalformedBody],
     [sig |-> Sign(SecretKey, MalformedBody), body |-> MalformedBody],
     [sig |-> Sign(ForeignKey, MalformedBody), body |-> MalformedBody]}

\* Requests of the provider in its usual compact form, correctly signed.
ProviderRequests ==
    {[sig |-> Sign(SecretKey, b), body |-> b] :
        b \in {JsonBody(p, 0) : p \in Payloads}}


\* -------------------------------------------------------------------------
\* Pure helpers of the handler

\* JS truthiness of a string-valued field (`!x` is the negation).
Truthy(v) == v \notin {Absent, Null, ""}

\* request.json(): the payload a JSON text denotes; whitespace carries no meaning.
JSONparse(body) == body.payload

\* JSON.stringify(payload): the compact text of the payload, no whitespace.
JSONstringify(payload) == [kind |-> "json", payload |-> payload, ws |-> 0]

\* mux.webhooks.verifySignature(body, headers, secret): TRUE when it returns,
\* FALSE when it throws. The header must be the HMAC of this very text under
\* the secret.
verifySignature(body, header, secret) ==
    /\ header.key = secret
    /\ header.signed = body

\* Preamble without the catch around verifySignature: a failed verification
\* is ignored.
Preamble_verifyIgnored(secret, req) ==
    IF ~Truthy(secret) THEN 500
    ELSE IF req.sig = <<>> THEN 401
    ELSE IF req.body.kind # "json" THEN 400
    ELSE IF ~Truthy(JSONparse(req.body).type) THEN 400
    ELSE 0

\* Preamble with the signature header looked at before the secret.
Preamble_headerFirst(secret, req) ==
    IF req.sig = <<>> THEN 401
    ELSE IF ~Truthy(secret) THEN 500
    ELSE IF req.body.kind # "json" THEN 400
    ELSE IF ~verifySignature(JSONstringify(JSONparse(req.body)), req.sig[1], secret) THEN 401
    ELSE IF ~Truthy(JSONparse(req.body).type) THEN 400
    ELSE 0

\* Preamble with the event type looked at before the signature is verified.
Preamble_typeBeforeVerify(secret, req) ==
    IF ~Truthy(secret) THEN 500
    ELSE IF req.sig = <<>> THEN 401
    ELSE IF req.body.kind # "json" THEN 400
    ELSE IF ~Truthy(JSONparse(req.body).type) THEN 400
    ELSE IF ~verifySignature(JSONstringify(JSONparse(req.body)), req.sig[1], secret) THEN 401
    ELSE 0

\* Preamble with the body parsed before the signature header is looked at.
Preamble_parseFirst(secret, req) ==
    IF ~Truthy(secret) THEN 500
    ELSE IF req.body.kind # "json" THEN 400
    ELSE IF req.sig = <<>> THEN 401
    ELSE IF ~verifySignature(JSONstringify(JSONparse(req.body)), req.sig[1], secret) THEN 401
    ELSE IF ~Truthy(JSONparse(req.body).type) THEN 400
    ELSE 0

\* The checks of POST before the switch: the status of the early response,
\* or 0 when the request reaches the switch.
Preamble(secret, req) ==
    IF ~Truthy(secret) THEN 500
    ELSE IF req.sig = <<>> THEN 401
    ELSE IF req.body.kind # "json" THEN 400
    ELSE IF ~verifySignature(JSONstringify(JSONparse(req.body)), req.sig[1], secret) THEN 401
    ELSE IF ~Truthy(JSONparse(req.body).type) THEN 400
    ELSE 0

\* data.playback_ids?.[0]?.id
FirstPlaybackId(data) ==
    IF Len(data.playback_ids) = 0 THEN Absent ELSE data.playback_ids[1]

\* CatchStatus with the catch blocks rethrowing and no outer catch: the error
\* leaves POST and no response is made.
CatchStatus_rethrows(payload) ==
    IF payload.type = "video.asset.deleted" THEN 0 ELSE 0

\* CatchStatus with the deleted case returning 500 from its catch block as
\* the other cases do.
CatchStatus_deletedFails(payload) ==
    IF payload.type = "video.asset.deleted" THEN 500 ELSE 500

\* The catch block of each case: the deleted case swallows the error and
\* falls through to the 200 at the end, the others return 500.
CatchStatus(payload) ==
    IF payload.type = "video.asset.deleted" THEN 200 ELSE 500

\* Validate with a default case that rejects what it does not handle.
Validate_defaultRejects(payload) ==
    LET data == payload.data IN
    CASE payload.type \in HandledTypes /\ ~data.object -> CatchStatus(payload)
      [] payload.type = "video.asset.created" ->
            IF ~Truthy(data.upload_id) THEN 400 ELSE 0
      [] payload.type = "video.asset.ready" ->
            IF ~Truthy(data.upload_id) THEN 400
            ELSE IF ~Truthy(FirstPlaybackId(data)) THEN 400 ELSE 0
      [] payload.type = "video.asset.errored" ->
            IF ~Truthy(data.upload_id) THEN 400 ELSE 0
      [] payload.type = "video.asset.deleted" ->
            IF ~Truthy(data.upload_id) THEN 400 ELSE 0
      [] payload.type = "video.asset.track.ready" ->
            IF ~Truthy(data.asset_id) THEN 400 ELSE 0
      [] OTHER -> 400

\* The field checks at the head of each case of the switch: 400 when the
\* case returns "missing ...", 200 for the default case, 0 when the case
\* goes on to its lookup. Reading a field of a missing data raises inside
\* the try block of the case, which answers from its catch block.
Validate(payload) ==
    LET data == payload.data IN
    CASE payload.type \in HandledTypes /\ ~data.object -> CatchStatus(payload)
      [] payload.type = "video.asset.created" ->
            IF ~Truthy(data.upload_id) THEN 400 ELSE 0
      [] payload.type = "video.asset.ready" ->
            IF ~Truthy(data.upload_id) THEN 400
            ELSE IF ~Truthy(FirstPlaybackId(data)) THEN 400 ELSE 0
      [] payload.type = "video.asset.errored" ->
            IF ~Truthy(data.upload_id) THEN 400 ELSE 0
      [] payload.type = "video.asset.deleted" ->
            IF ~Truthy(data.upload_id) THEN 400 ELSE 0
      [] payload.type = "video.asset.track.ready" ->
            IF ~Truthy(data.asset_id) THEN 400 ELSE 0
      [] OTHER -> 200

\* Math.trunc in the place of Math.round: the fraction is dropped.
MathRound_truncated(num, den) ==
    IF num >= 0 THEN num \div den ELSE -((-num) \div den)

\* Math.round(num / den) for den > 0: the nearest integer, halves go up.
MathRound(num, den) == (2 * num + den) \div (2 * den)

\* const duration = data.duration ? Math.round(data.duration * 1000) : 0;
\* data.duration is d[1] / 10000 seconds, so data.duration * 1000 is d[1] / 10.
DurationMillis(d) ==
    IF d = <<>> \/ d[1] = 0 THEN 0 ELSE MathRound(d[1], 10)

\* -------------------------------------------------------------------------
\* The record store

\* A row as the upload flow inserts it: only the upload reference is set.
NewRow(u) ==
    [id |-> "vid_" \o u, muxUploadId |-> u, muxAssetId |-> Null, muxStatus |-> Null,
     muxPlaybackId |-> Null, duration |-> 0,
     thumbnailKey |-> Null, thumbnailUrl |-> Null,
     previewKey |-> Null, previewUrl |-> Null,
     muxTrackId |-> Null, muxTrackStatus |-> Null, updatedAt |-> 0]

\* .where(eq(videos.<col>, val))
Where(rows, col, val) == {r \in rows : r[col] = val}

\* .set(patch): the ORM skips the columns whose value is undefined.
SetColumns(r, patch) ==
    [c \in DOMAIN r |->
        IF c \in DOMAIN patch
        THEN (IF c \in {"duration", "updatedAt"} THEN patch[c]
              ELSE IF patch[c] = Absent THEN r[c] ELSE patch[c])
        ELSE r[c]]

\* UpdateWhere without its .where(): every row is updated.
UpdateWhere_everyRow(rows, col, val, patch) ==
    {SetColumns(r, patch) : r \in rows}

\* db.update(videos).set(patch).where(eq(videos.<col>, val))
UpdateWhere(rows, col, val, patch) ==
    {IF r[col] = val THEN SetColumns(r, patch) ELSE r : r \in rows}

\* DeleteWhere with the query built and never awaited: nothing is deleted.
DeleteWhere_notExecuted(rows, col, val) == rows

\* DeleteWhere with the condition negated: ne() in the place of eq().
DeleteWhere_negated(rows, col, val) == {r \in rows : r[col] = val}

\* db.delete(videos).where(eq(videos.<col>, val))
DeleteWhere(rows, col, val) == {r \in rows : r[col] # val}

\* The column and the value the handler of a payload correlates by.
CorrelationColumn(payload) ==
    IF payload.type = "video.asset.track.ready" THEN "muxAssetId" ELSE "muxUploadId"

CorrelationValue(payload) ==
    IF payload.type = "video.asset.track.ready"
    THEN payload.data.asset_id ELSE payload.data.upload_id

\* CreatedPatch that puts the record back to its state before playback.
CreatedPatch_resets(data, now) ==
    [muxAssetId |-> data.id, muxStatus |-> data.status, muxPlaybackId |-> Null,
     updatedAt |-> now]

\* TrackReadyPatch that writes the track's status to the main status too.
TrackReadyPatch_setsStatus(data, now) ==
    [muxTrackId |-> data.id, muxTrackStatus |-> data.status, muxStatus |-> data.status,
     updatedAt |-> now]

\* The object handed to .set() by each updating case.
CreatedPatch(data, now) ==
    [muxAssetId |-> data.id, muxStatus |-> data.status, updatedAt |-> now]

ErroredPatch(data, now) ==
    [muxStatus |-> data.status, updatedAt |-> now]

TrackReadyPatch(data, now) ==
    [muxTrackId |-> data.id, muxTrackStatus |-> data.status, updatedAt |-> now]

\* ReadyPatch with the two mirrors in one try block: a failed thumbnail
\* drops the preview too.
ReadyPatch_coupled(data, loc, now) ==
    LET base == [muxStatus |-> data.status, muxPlaybackId |-> FirstPlaybackId(data),
                 muxAssetId |-> data.id, duration |-> DurationMillis(data.duration),
                 updatedAt |-> now]
        thumb == IF Truthy(loc.thumbnailUrl) /\ Truthy(loc.thumbnailKey)
                 THEN [thumbnailUrl |-> loc.thumbnailUrl, thumbnailKey |-> loc.thumbnailKey]
                 ELSE <<>>
        prevw == IF /\ Truthy(loc.previewUrl) /\ Truthy(loc.previewKey)
                    /\ Truthy(loc.thumbnailUrl) /\ Truthy(loc.thumbnailKey)
                 THEN [previewUrl |-> loc.previewUrl, previewKey |-> loc.previewKey]
                 ELSE <<>>
    IN  base @@ thumb @@ prevw

\* ReadyPatch with the preview's key taken from the thumbnail's result.
ReadyPatch_crossed(data, loc, now) ==
    LET base == [muxStatus |-> data.status, muxPlaybackId |-> FirstPlaybackId(data),
                 muxAssetId |-> data.id, duration |-> DurationMillis(data.duration),
                 updatedAt |-> now]
        thumb == IF Truthy(loc.thumbnailUrl) /\ Truthy(loc.thumbnailKey)
                 THEN [thumbnailUrl |-> loc.thumbnailUrl, thumbnailKey |-> loc.thumbnailKey]
                 ELSE <<>>
        prevw == IF Truthy(loc.previewUrl) /\ Truthy(loc.previewKey)
                 THEN [previewUrl |-> loc.previewUrl, previewKey |-> loc.thumbnailKey]
                 ELSE <<>>
    IN  base @@ thumb @@ prevw

\* updateData of the ready case: the primary fields, plus each mirrored
\* location whose key and url are both set.
ReadyPatch(data, loc, now) ==
    LET base == [muxStatus |-> data.status, muxPlaybackId |-> FirstPlaybackId(data),
                 muxAssetId |-> data.id, duration |-> DurationMillis(data.duration),
                 updatedAt |-> now]
        thumb == IF Truthy(loc.thumbnailUrl) /\ Truthy(loc.thumbnailKey)
                 THEN [thumbnailUrl |-> loc.thumbnailUrl, thumbnailKey |-> loc.thumbnailKey]
                 ELSE <<>>
        prevw == IF Truthy(loc.previewUrl) /\ Truthy(loc.previewKey)
                 THEN [previewUrl |-> loc.previewUrl, previewKey |-> loc.previewKey]
                 ELSE <<>>
    IN  base @@ thumb @@ prevw

\* -------------------------------------------------------------------------
\* The asset storage

\* The key the storage gives its n-th file, and the public url of a key.
FileKey(n) == "key_" \o ToString(n)
FileUrl(key) == "https://utfs.io/f/" \o key


\* -------------------------------------------------------------------------
\* Invocations of POST

NoLoc == [thumbnailKey |-> Absent, thumbnailUrl |-> Absent,
          previewKey |-> Absent, previewUrl |-> Absent]

Idle == [pc |-> "idle", req |-> [sig |-> <<>>, body |-> MalformedBody], resp |-> 0,
         pre |-> {}, existing |-> <<>>, loc |-> NoLoc, ops |-> <<>>]

\* One call on a collaborator: its name, how it ended, the rows it touched
\* and the file key it returned.
Op(name, out, n) == [op |-> name, out |-> out, n |-> n, key |-> Absent]
Upload(name, out, key) == [op |-> name, out |-> out, n |-> 0, key |-> key]

PayloadOf(i) == JSONparse(i.req.body)

\* The request got past signature verification and the event-type check.
Dispatched(i) == i.pc # "idle" /\ Preamble(SIGNING_SECRET, i.req) = 0

\* return new Response(..., { status: code })
Respond(p, code, op) ==
    inv' = [inv EXCEPT ![p].pc = "done", ![p].resp = code,
                       ![p].ops = IF op = <<>> THEN @ ELSE Append(@, op[1])]

\* The object handed to .set() by the case of this payload.
PatchOf(payload, loc, now) ==
    CASE payload.type = "video.asset.created" -> CreatedPatch(payload.data, now)
      [] payload.type = "video.asset.ready" -> ReadyPatch(payload.data, loc, now)
      [] payload.type = "video.asset.errored" -> ErroredPatch(payload.data, now)
      [] OTHER -> TrackReadyPatch(payload.data, now)

\* LookupMiss without the `if (!existingVideo)` returns: a miss falls through
\* to the 200 at the end.
LookupMiss_acknowledged(payload) ==
    IF payload.type = "video.asset.deleted"
    THEN [pc |-> "fallback", resp |-> 0]
    ELSE [pc |-> "done", resp |-> 200]

\* What a case does when its lookup finds no row: the deleted case goes on to
\* its fallback delete, the others return 404.
LookupMiss(payload) ==
    IF payload.type = "video.asset.deleted"
    THEN [pc |-> "fallback", resp |-> 0]
    ELSE [pc |-> "done", resp |-> 404]

\* Where a case goes once its lookup found a row.
AfterLookup(payload) ==
    CASE payload.type = "video.asset.ready" -> "thumb"
      [] payload.type = "video.asset.deleted" -> "cleanupThumb"
      [] OTHER -> "update"

Init ==
    /\ SIGNING_SECRET \in {Absent, SecretKey}
    /\ videos \in {{NewRow(u) : u \in S} : S \in InitialUploads}
    /\ files = {}
    /\ nextKey = 0
    /\ clock = 0
    /\ prev = <<>>
    /\ inv = [p \in Procs |-> Idle]

\* A request arrives: the checks before the switch and the field checks of
\* the case run without touching shared state.
Receive(p, req) ==
    /\ inv[p].pc \in {"idle", "done"}
    /\ clock < MaxEvents
    /\ clock' = clock + 1
    /\ prev' = IF Dispatched(inv[p]) /\ inv[p].resp = 200
               THEN <<[payload |-> PayloadOf(inv[p]), resp |-> inv[p].resp]>>
               ELSE <<>>
    /\ LET early == Preamble(SIGNING_SECRET, req)
           code == IF early # 0 THEN early ELSE Validate(JSONparse(req.body))
       IN  inv' = [inv EXCEPT ![p] =
                    [pc |-> IF code = 0 THEN "lookup" ELSE "done",
                     req |-> req, resp |-> code, pre |-> videos,
                     existing |-> <<>>, loc |-> NoLoc, ops |-> <<>>]]
    /\ UNCHANGED <<SIGNING_SECRET, videos, files, nextKey>>

\* A request arrives and `await headers()` raises: the outer catch answers
\* 500 (as does the secret check before it when the secret is not set).
ReceiveHeadersFault(p, req) ==
    /\ inv[p].pc \in {"idle", "done"}
    /\ clock < MaxEvents
    /\ clock' = clock + 1
    /\ prev' = IF Dispatched(inv[p]) /\ inv[p].resp = 200
               THEN <<[payload |-> PayloadOf(inv[p]), resp |-> inv[p].resp]>>
               ELSE <<>>
    /\ inv' = [inv EXCEPT ![p] =
                [pc |-> "done", req |-> req, resp |-> 500, pre |-> videos,
                 existing |-> <<>>, loc |-> NoLoc,
                 ops |-> IF Truthy(SIGNING_SECRET)
                         THEN <<Op("headers", "throw", 0)>> ELSE <<>>]]
    /\ UNCHANGED <<SIGNING_SECRET, videos, files, nextKey>>

\* const [existingVideo] = await db.select()...where(...).limit(1)
Lookup(p, outs) ==
    /\ inv[p].pc = "lookup"
    /\ LET payload == PayloadOf(inv[p])
           found == Where(videos, CorrelationColumn(payload), CorrelationValue(payload))
       IN  \E out \in outs :
             \/ /\ out = "throw"
                /\ Respond(p, CatchStatus(payload), <<Op("select", "throw", 0)>>)
             \/ /\ out = "ok"
                /\ found = {}
                /\ inv' = [inv EXCEPT ![p].pc = LookupMiss(payload).pc,
                                      ![p].resp = LookupMiss(payload).resp,
                                      ![p].ops = Append(@, Op("select", "ok", 0))]
             \/ /\ out = "ok"
                /\ \E r \in found :
                     inv' = [inv EXCEPT ![p].pc = AfterLookup(payload),
                                        ![p].existing = <<r>>,
                                        ![p].ops = Append(@, Op("select", "ok", 1))]
    /\ UNCHANGED <<SIGNING_SECRET, videos, files, nextKey, clock, prev>>

\* utapi.uploadFilesFromUrl(tempThumbnailUrl), inside its own try/catch.
\* The call is awaited with no timeout and no abort signal: when its promise
\* never settles ("pending") the invocation stays at the await.
MirrorThumbnail(p, outs) ==
    /\ inv[p].pc = "thumb"
    /\ \E out \in outs :
         \/ /\ out = "data"
            /\ LET key == FileKey(nextKey + 1) IN
                 /\ files' = files \cup {key}
                 /\ nextKey' = nextKey + 1
                 /\ inv' = [inv EXCEPT ![p].pc = "preview",
                                       ![p].loc.thumbnailKey = key,
                                       ![p].loc.thumbnailUrl = FileUrl(key),
                                       ![p].ops = Append(@, Upload("uploadThumbnail", "ok", key))]
         \/ /\ out \in {"nodata", "throw"}
            /\ inv' = [inv EXCEPT ![p].pc = "preview",
                                  ![p].ops = Append(@, Op("uploadThumbnail", "failed", 0))]
            /\ UNCHANGED <<files, nextKey>>
         \/ /\ out = "pending"
            /\ inv' = [inv EXCEPT ![p].pc = "awaitThumbnail",
                                  ![p].ops = Append(@, Op("uploadThumbnail", "pending", 0))]
            /\ UNCHANGED <<files, nextKey>>
    /\ UNCHANGED <<SIGNING_SECRET, videos, clock, prev>>

\* utapi.uploadFilesFromUrl(tempPreviewUrl), inside its own try/catch
MirrorPreview(p, outs) ==
    /\ inv[p].pc = "preview"
    /\ \E out \in outs :
         \/ /\ out = "data"
            /\ LET key == FileKey(nextKey + 1) IN
                 /\ files' = files \cup {key}
                 /\ nextKey' = nextKey + 1
                 /\ inv' = [inv EXCEPT ![p].pc = "update",
                                       ![p].loc.previewKey = key,
                                       ![p].loc.previewUrl = FileUrl(key),
                                       ![p].ops = Append(@, Upload("uploadPreview", "ok", key))]
         \/ /\ out \in {"nodata", "throw"}
            /\ inv' = [inv EXCEPT ![p].pc = "update",
                                  ![p].ops = Append(@, Op("uploadPreview", "failed", 0))]
            /\ UNCHANGED <<files, nextKey>>
         \/ /\ out = "pending"
            /\ inv' = [inv EXCEPT ![p].pc = "awaitPreview",
                                  ![p].ops = Append(@, Op("uploadPreview", "pending", 0))]
            /\ UNCHANGED <<files, nextKey>>
    /\ UNCHANGED <<SIGNING_SECRET, videos, clock, prev>>

\* await db.update(videos).set(...).where(...), then the 200 at the end
Update(p, outs) ==
    /\ inv[p].pc = "update"
    /\ LET payload == PayloadOf(inv[p])
           col == CorrelationColumn(payload)
           val == CorrelationValue(payload)
       IN  \E out \in outs :
             \/ /\ out = "throw"
                /\ Respond(p, CatchStatus(payload), <<Op("update", "throw", 0)>>)
                /\ UNCHANGED videos
             \/ /\ out = "ok"
                /\ videos' = UpdateWhere(videos, col, val,
                                         PatchOf(payload, inv[p].loc, clock))
                /\ Respond(p, 200,
                           <<Op("update", "ok", Cardinality(Where(videos, col, val)))>>)
    /\ UNCHANGED <<SIGNING_SECRET, files, nextKey, clock, prev>>

\* The record store without the uniqueness of the asset reference.
UniqueViolation_unenforced(rows) == FALSE

\* The record store's schema: the asset reference is unique when present.
\* A table in which two records hold the same non-null muxAssetId is refused.
UniqueViolation(rows) ==
    \E r1, r2 \in rows :
        /\ r1.id # r2.id
        /\ r1.muxAssetId # Null
        /\ r1.muxAssetId = r2.muxAssetId

\* The update statement against a store that enforces the schema: an update
\* whose result the schema refuses raises, and the catch block answers.
UpdateUnique(p, outs) ==
    IF /\ inv[p].pc = "update"
       /\ LET payload == PayloadOf(inv[p]) IN
            UniqueViolation(UpdateWhere(videos, CorrelationColumn(payload),
                                        CorrelationValue(payload),
                                        PatchOf(payload, inv[p].loc, clock)))
    THEN Update(p, {"throw"})
    ELSE Update(p, outs)

\* if (videoToDelete.thumbnailKey) { try { await utapi.deleteFiles(...) } catch {} }
CleanupThumbnail(p, outs) ==
    /\ inv[p].pc = "cleanupThumb"
    /\ LET key == inv[p].existing[1].thumbnailKey IN
         IF ~Truthy(key)
         THEN /\ inv' = [inv EXCEPT ![p].pc = "cleanupPreview"]
              /\ UNCHANGED files
         ELSE \E out \in outs :
                /\ files' = IF out = "ok" THEN files \ {key} ELSE files
                /\ inv' = [inv EXCEPT ![p].pc = "cleanupPreview",
                                      ![p].ops = Append(@, Op("deleteThumbnail", out, 0))]
    /\ UNCHANGED <<SIGNING_SECRET, videos, nextKey, clock, prev>>

\* if (videoToDelete.previewKey) { try { await utapi.deleteFiles(...) } catch {} }
CleanupPreview(p, outs) ==
    /\ inv[p].pc = "cleanupPreview"
    /\ LET key == inv[p].existing[1].previewKey IN
         IF ~Truthy(key)
         THEN /\ inv' = [inv EXCEPT ![p].pc = "delete"]
              /\ UNCHANGED files
         ELSE \E out \in outs :
                /\ files' = IF out = "ok" THEN files \ {key} ELSE files
                /\ inv' = [inv EXCEPT ![p].pc = "delete",
                                      ![p].ops = Append(@, Op("deletePreview", out, 0))]
    /\ UNCHANGED <<SIGNING_SECRET, videos, nextKey, clock, prev>>

\* await db.delete(videos).where(eq(videos.id, videoToDelete.id))
DeleteRecord(p, outs) ==
    /\ inv[p].pc = "delete"
    /\ LET id == inv[p].existing[1].id IN
         \E out \in outs :
           \/ /\ out = "throw"
              /\ Respond(p, 200, <<Op("delete", "throw", 0)>>)
              /\ UNCHANGED videos
           \/ /\ out = "ok"
              /\ videos' = DeleteWhere(videos, "id", id)
              /\ Respond(p, 200, <<Op("delete", "ok", Cardinality(Where(videos, "id", id)))>>)
    /\ UNCHANGED <<SIGNING_SECRET, files, nextKey, clock, prev>>

\* await db.delete(videos).where(eq(videos.muxUploadId, data.upload_id))
FallbackDelete(p, outs) ==
    /\ inv[p].pc = "fallback"
    /\ LET u == PayloadOf(inv[p]).data.upload_id IN
         \E out \in outs :
           \/ /\ out = "throw"
              /\ Respond(p, 200, <<Op("fallbackDelete", "throw", 0)>>)
              /\ UNCHANGED videos
           \/ /\ out = "ok"
              /\ videos' = DeleteWhere(videos, "muxUploadId", u)
              /\ Respond(p, 200,
                         <<Op("fallbackDelete", "ok",
                              Cardinality(Where(videos, "muxUploadId", u)))>>)
    /\ UNCHANGED <<SIGNING_SECRET, files, nextKey, clock, prev>>

\* Outcomes of the collaborators' calls.
StoreOk == {"ok"}
StoreAny == {"ok", "throw"}
MirrorOk == {"data"}
MirrorAny == {"data", "nodata", "throw"}
MirrorMayHang == {"data", "nodata", "throw", "pending"}
CleanupOk == {"ok"}
CleanupAny == {"ok", "throw"}

\* The provider delivers its events one at a time; the record store honours
\* its contract (findOne, update and delete return), the asset storage may fail.
Next ==
    \/ \E req \in ProviderRequests : Receive(SeqProc, req)
    \/ Lookup(SeqProc, StoreOk)
    \/ MirrorThumbnail(SeqProc, MirrorAny)
    \/ MirrorPreview(SeqProc, MirrorAny)
    \/ Update(SeqProc, StoreOk)
    \/ CleanupThumbnail(SeqProc, CleanupAny)
    \/ CleanupPreview(SeqProc, CleanupAny)
    \/ DeleteRecord(SeqProc, StoreOk)
    \/ FallbackDelete(SeqProc, StoreOk)

Spec == Init /\ [][Next]_vars

\* Anyone may post, one request at a time; both collaborators honour their
\* contracts.
NextAuth ==
    \/ \E req \in Requests : Receive(SeqProc, req)
    \/ Lookup(SeqProc, StoreOk)
    \/ MirrorThumbnail(SeqProc, MirrorOk)
    \/ MirrorPreview(SeqProc, MirrorOk)
    \/ Update(SeqProc, StoreOk)
    \/ CleanupThumbnail(SeqProc, CleanupOk)
    \/ CleanupPreview(SeqProc, CleanupOk)
    \/ DeleteRecord(SeqProc, StoreOk)
    \/ FallbackDelete(SeqProc, StoreOk)

SpecAuth == Init /\ [][NextAuth]_vars

\* The provider delivers its events one at a time; every call on the record
\* store and on the asset storage may raise.
NextFaults ==
    \/ \E req \in ProviderRequests : Receive(SeqProc, req)
    \/ Lookup(SeqProc, StoreAny)
    \/ MirrorThumbnail(SeqProc, MirrorAny)
    \/ MirrorPreview(SeqProc, MirrorAny)
    \/ Update(SeqProc, StoreAny)
    \/ CleanupThumbnail(SeqProc, CleanupAny)
    \/ CleanupPreview(SeqProc, CleanupAny)
    \/ DeleteRecord(SeqProc, StoreAny)
    \/ FallbackDelete(SeqProc, StoreAny)

SpecFaults == Init /\ [][NextFaults]_vars

\* The provider's requests, and the requests that fail before the switch in
\* each of the ways there are: no header, a foreign signature, a body that is
\* not the text that was signed, a body that is not JSON, a payload without
\* a type.
FaultRequests ==
    ProviderRequests \cup
    {r \in Requests : r.body.kind = "malformed" \/ r.body.payload \in OtherEvents}

\* The header read raises before the body is read, so what the body holds
\* plays no part: the deleted events stand for all of them, being the kind
\* whose own catch block would answer 200.
HeaderFaultRequests == {r \in ProviderRequests : r.body.payload \in DeletedEvents}

\* One request at a time; the header read, the JSON parse, the verifier and
\* every call on the record store and on the asset storage may raise.
NextCatchAll ==
    \/ \E req \in FaultRequests : Receive(SeqProc, req)
    \/ \E req \in HeaderFaultRequests : ReceiveHeadersFault(SeqProc, req)
    \/ Lookup(SeqProc, StoreAny)
    \/ MirrorThumbnail(SeqProc, MirrorAny)
    \/ MirrorPreview(SeqProc, MirrorAny)
    \/ Update(SeqProc, StoreAny)
    \/ CleanupThumbnail(SeqProc, CleanupAny)
    \/ CleanupPreview(SeqProc, CleanupAny)
    \/ DeleteRecord(SeqProc, StoreAny)
    \/ FallbackDelete(SeqProc, StoreAny)

SpecCatchAll == Init /\ [][NextCatchAll]_vars

\* The provider delivers its events one at a time to a record store that
\* enforces the uniqueness of the asset reference; no call fails otherwise.
NextUnique ==
    \/ \E req \in ProviderRequests : Receive(SeqProc, req)
    \/ Lookup(SeqProc, StoreOk)
    \/ MirrorThumbnail(SeqProc, MirrorOk)
    \/ MirrorPreview(SeqProc, MirrorOk)
    \/ UpdateUnique(SeqProc, StoreOk)
    \/ CleanupThumbnail(SeqProc, CleanupOk)
    \/ CleanupPreview(SeqProc, CleanupOk)
    \/ DeleteRecord(SeqProc, StoreOk)
    \/ FallbackDelete(SeqProc, StoreOk)

SpecUnique == Init /\ [][NextUnique]_vars

\* The provider's ready events.
ReadyRequests == {r \in ProviderRequests : r.body.payload \in ReadyEvents}

\* Ready events delivered one at a time; a mirror call may fail or never
\* settle. The runtime resumes an invocation whenever the call it awaits
\* has settled, so each step of the handler that can be taken is taken.
NextLive ==
    \/ \E req \in ReadyRequests : Receive(SeqProc, req)
    \/ Lookup(SeqProc, StoreOk)
    \/ MirrorThumbnail(SeqProc, MirrorMayHang)
    \/ MirrorPreview(SeqProc, MirrorMayHang)
    \/ Update(SeqProc, StoreOk)

SpecLive ==
    /\ Init
    /\ [][NextLive]_vars
    /\ WF_vars(Lookup(SeqProc, StoreOk))
    /\ WF_vars(MirrorThumbnail(SeqProc, MirrorMayHang))
    /\ WF_vars(MirrorPreview(SeqProc, MirrorMayHang))
    /\ WF_vars(Update(SeqProc, StoreOk))

\* The requests of the concurrent specification: the provider's deleted
\* events and its complete ready events, for each upload.
ConcRequests ==
    {r \in ProviderRequests :
        LET data == r.body.payload.data IN
        /\ r.body.payload \in ReadyEvents \cup DeletedEvents
        /\ data.upload_id \in UploadIds
        /\ r.body.payload \in ReadyEvents =>
              /\ data.id = "asset_1"
              /\ data.playback_ids # <<>>
              /\ data.duration = <<125005>>}

\* Two invocations of POST run at once: the platform starts one per request
\* and each gives way at every await. The record store answers; the asset
\* storage may fail.
NextConc ==
    \E p \in Procs :
        \/ \E req \in ConcRequests : Receive(p, req)
        \/ Lookup(p, StoreOk)
        \/ MirrorThumbnail(p, MirrorAny)
        \/ MirrorPreview(p, MirrorAny)
        \/ Update(p, StoreOk)
        \/ CleanupThumbnail(p, CleanupAny)
        \/ CleanupPreview(p, CleanupAny)
        \/ DeleteRecord(p, StoreOk)
        \/ FallbackDelete(p, StoreOk)

SpecConc == Init /\ [][NextConc]_vars


\* -------------------------------------------------------------------------
\* Properties

\* The invocation the properties of the sequential specifications speak about.
Cur == inv[SeqProc]
CurPayload == PayloadOf(Cur)
CurData == CurPayload.data

\* The request has been answered.
Answered == Cur.pc = "done"

\* The request was sent by the provider: it carries a JSON body and the HMAC
\* of that body's compact text under the configured secret.
Authentic ==
    /\ Cur.pc # "idle"
    /\ SIGNING_SECRET = SecretKey
    /\ Cur.req.body.kind = "json"
    /\ Cur.req.sig = Sign(SecretKey, [Cur.req.body EXCEPT !.ws = 0])

\* The rows an upload reference or an asset reference selects.
RowsOfUpload(rows, u) == {r \in rows : r.muxUploadId = u}
RowsOfAsset(rows, a) == {r \in rows : r.muxAssetId = a}

\* C1: a request whose body is JSON and which carries a signature header that
\* the verifier rejects (it is not the HMAC, under the configured secret, of
\* the text the verifier is given) is answered 401, and the table videos is
\* what it was when the request arrived, whatever the event is.
C1_InvalidSignatureIs401 ==
    (/\ Answered
     /\ Truthy(SIGNING_SECRET)
     /\ Cur.req.body.kind = "json"
     /\ Cur.req.sig # <<>>
     /\ \/ Cur.req.sig[1].key # SIGNING_SECRET
        \/ Cur.req.sig[1].signed # [Cur.req.body EXCEPT !.ws = 0])
    => (Cur.resp = 401 /\ videos = Cur.pre /\ Cur.ops = <<>>)

\* C1 witness: a forged video.asset.deleted for an upload that has a row was
\* answered 401.
C1_Witness ==
    /\ Answered
    /\ Truthy(SIGNING_SECRET)
    /\ Cur.req.body.kind = "json"
    /\ Cur.req.sig # <<>>
    /\ Cur.req.sig[1].key = ForeignKey
    /\ CurPayload.type = "video.asset.deleted"
    /\ RowsOfUpload(Cur.pre, CurData.upload_id) # {}
    /\ Cur.resp = 401

\* C2: with the secret configured, a request without the mux-signature header
\* is answered 401 and the table videos is what it was when the request
\* arrived, whatever the body is.
C2_MissingHeaderIs401 ==
    (Answered /\ Truthy(SIGNING_SECRET) /\ Cur.req.sig = <<>>)
    => (Cur.resp = 401 /\ videos = Cur.pre /\ Cur.ops = <<>>)

\* C2 witness: an unsigned request whose body is no JSON was answered 401
\* while a row existed.
C2_Witness ==
    /\ Answered
    /\ Truthy(SIGNING_SECRET)
    /\ Cur.req.sig = <<>>
    /\ Cur.req.body.kind = "malformed"
    /\ Cur.pre # {}
    /\ Cur.resp = 401

\* C3: the verifier is given the raw body, so a request whose signature is
\* the provider's HMAC of its raw body is never answered 401.
C3_RawBodySignatureNeverRejected ==
    (/\ Answered
     /\ SIGNING_SECRET = SecretKey
     /\ Cur.req.sig = Sign(SecretKey, Cur.req.body))
    => Cur.resp # 401


\* The calls of the current invocation on one collaborator operation.
OpsNamed(name) == {k \in 1..Len(Cur.ops) : Cur.ops[k].op = name}

\* The current request is an authentic video.asset.ready that names an upload
\* with a row and carries a playback id, an asset id and a status.
ReadyForExistingRow ==
    /\ Answered
    /\ Authentic
    /\ CurPayload.type = "video.asset.ready"
    /\ Truthy(CurData.upload_id)
    /\ RowsOfUpload(Cur.pre, CurData.upload_id) # {}
    /\ Len(CurData.playback_ids) >= 1
    /\ Truthy(CurData.id)
    /\ Truthy(CurData.status)

\* C4: an authentic video.asset.ready event whose upload_id has a row and
\* which carries at least one playback id is answered 200, and the row then
\* holds the event's status, its first playback id, its asset id and its
\* duration in milliseconds rounded to the nearest integer (0 when the event
\* has no duration).
C4_ReadyUpdatesRecord ==
    ReadyForExistingRow =>
        /\ Cur.resp = 200
        /\ RowsOfUpload(videos, CurData.upload_id) # {}
        /\ \A r \in RowsOfUpload(videos, CurData.upload_id) :
             /\ r.muxStatus = CurData.status
             /\ r.muxPlaybackId = CurData.playback_ids[1]
             /\ r.muxAssetId = CurData.id
             /\ IF CurData.duration = <<>>
                THEN r.duration = 0
                ELSE /\ 10 * r.duration - 5 <= CurData.duration[1]
                     /\ CurData.duration[1] < 10 * r.duration + 5

\* C4 witness: a ready event of 12.5005 s with playback ids pb_1, pb_2 was
\* applied: the row holds pb_1 and 12501 ms.
C4_Witness ==
    /\ ReadyForExistingRow
    /\ Cur.resp = 200
    /\ CurData.duration = <<125005>>
    /\ \E r \in RowsOfUpload(videos, CurData.upload_id) :
         r.duration = 12501 /\ r.muxPlaybackId = "pb_1" /\ r.muxStatus = "ready"

\* The outcome of the one call of the current invocation on a mirror.
MirrorCall(name) == Cur.ops[CHOOSE k \in OpsNamed(name) : TRUE]

\* A row holds exactly what the mirror call returned, or, when the call
\* failed, what the row held before.
LocationFollowsMirror(r, r0, name, keyCol, urlCol) ==
    IF MirrorCall(name).out = "ok"
    THEN r[keyCol] = MirrorCall(name).key /\ r[urlCol] = FileUrl(MirrorCall(name).key)
    ELSE r[keyCol] = r0[keyCol] /\ r[urlCol] = r0[urlCol]

\* C5: in video.asset.ready processing both mirrors are attempted whatever
\* the other one does; the answer is 200, the row holds the primary fields,
\* the location of each mirror that succeeded, and for each mirror that
\* failed the location it held before.
C5_MirrorsIndependent ==
    ReadyForExistingRow =>
        /\ Cur.resp = 200
        /\ Cardinality(OpsNamed("uploadThumbnail")) = 1
        /\ Cardinality(OpsNamed("uploadPreview")) = 1
        /\ \A r \in RowsOfUpload(videos, CurData.upload_id) :
             /\ r.muxStatus = CurData.status
             /\ r.muxPlaybackId = CurData.playback_ids[1]
             /\ r.muxAssetId = CurData.id
             /\ \E r0 \in RowsOfUpload(Cur.pre, CurData.upload_id) :
                  /\ r0.id = r.id
                  /\ LocationFollowsMirror(r, r0, "uploadThumbnail",
                                           "thumbnailKey", "thumbnailUrl")
                  /\ LocationFollowsMirror(r, r0, "uploadPreview",
                                           "previewKey", "previewUrl")

\* C5 witness: the thumbnail mirror failed and the preview mirror succeeded on
\* a row that already had a thumbnail: the row keeps the old thumbnail and
\* holds the new preview.
C5_Witness ==
    /\ ReadyForExistingRow
    /\ Cur.resp = 200
    /\ OpsNamed("uploadThumbnail") # {}
    /\ OpsNamed("uploadPreview") # {}
    /\ MirrorCall("uploadThumbnail").out = "failed"
    /\ MirrorCall("uploadPreview").out = "ok"
    /\ \E r \in RowsOfUpload(videos, CurData.upload_id) :
         /\ Truthy(r.thumbnailKey)
         /\ r.previewKey = MirrorCall("uploadPreview").key
         /\ \E r0 \in RowsOfUpload(Cur.pre, CurData.upload_id) :
              r0.thumbnailKey = r.thumbnailKey /\ r0.previewKey # r.previewKey


\* The rows without the column every update refreshes.
WithoutUpdatedAt(rows) == {[r EXCEPT !.updatedAt = 0] : r \in rows}

\* C6: delivering the same video.asset.ready event a second time leaves the
\* table as the first delivery left it, updatedAt aside, whatever the mirror
\* calls of the two deliveries return.
C6_ReadyReplayIdempotent ==
    (/\ Answered
     /\ Authentic
     /\ CurPayload.type = "video.asset.ready"
     /\ Cur.resp = 200
     /\ prev = <<[payload |-> CurPayload, resp |-> 200]>>)
    => WithoutUpdatedAt(videos) = WithoutUpdatedAt(Cur.pre)

\* The rows the current event correlates with, among rows.
Correlated(rows) ==
    IF CurPayload.type = "video.asset.track.ready"
    THEN RowsOfAsset(rows, CurData.asset_id)
    ELSE RowsOfUpload(rows, CurData.upload_id)

\* The current request is an authentic created, ready (with a playback id),
\* errored or track.ready event that carries its correlation key.
UpdatingEventWithKey ==
    /\ Answered
    /\ Authentic
    /\ \/ /\ CurPayload.type \in {"video.asset.created", "video.asset.errored"}
          /\ Truthy(CurData.upload_id)
       \/ /\ CurPayload.type = "video.asset.ready"
          /\ Truthy(CurData.upload_id)
          /\ Len(CurData.playback_ids) >= 1
       \/ /\ CurPayload.type = "video.asset.track.ready"
          /\ Truthy(CurData.asset_id)

\* C7: an authentic created, ready, errored or track.ready event whose
\* correlation key selects no row is answered 404 (never 200) and leaves the
\* table as it was.
C7_LookupMissIs404 ==
    (UpdatingEventWithKey /\ Correlated(Cur.pre) = {})
    => (Cur.resp = 404 /\ videos = Cur.pre)

\* C7 witness: a ready event for an upload without a row was answered 404
\* while another upload had a row.
C7_Witness ==
    /\ UpdatingEventWithKey
    /\ CurPayload.type = "video.asset.ready"
    /\ Correlated(Cur.pre) = {}
    /\ Cur.pre # {}
    /\ Cur.resp = 404

\* The current request is an authentic video.asset.deleted with an upload_id.
DeletedWithUploadId ==
    /\ Answered
    /\ Authentic
    /\ CurPayload.type = "video.asset.deleted"
    /\ Truthy(CurData.upload_id)

\* C8: a video.asset.deleted event for an upload_id without a row is answered
\* 200 and leaves the table as it was; the fallback delete touches no row.
C8_DeleteOfMissingIsNoOp ==
    (DeletedWithUploadId /\ RowsOfUpload(Cur.pre, CurData.upload_id) = {})
    => /\ Cur.resp = 200
       /\ videos = Cur.pre
       /\ \A k \in OpsNamed("fallbackDelete") : Cur.ops[k].n = 0

\* C8 witness: the same deleted event was delivered before and removed the
\* row; this delivery ran the fallback delete, which left the other row alone.
C8_Witness ==
    /\ DeletedWithUploadId
    /\ RowsOfUpload(Cur.pre, CurData.upload_id) = {}
    /\ prev = <<[payload |-> CurPayload, resp |-> 200]>>
    /\ Cur.pre # {}
    /\ \E k \in OpsNamed("fallbackDelete") : Cur.ops[k].out = "ok"
    /\ Cur.resp = 200

\* C9 as stated: every authentic video.asset.deleted event is answered 200.
C9_DeletedAlwaysAnswers200 ==
    (Answered /\ Authentic /\ CurPayload.type = "video.asset.deleted")
    => Cur.resp = 200

\* C9 as amended: every authentic video.asset.deleted event that carries an
\* upload_id is answered 200, whichever of the lookup, the two cleanup calls
\* and the delete raises; and when the lookup found the row, the delete by
\* the row's id is issued whatever the cleanup calls did, and removes the row
\* unless the delete itself raises.
C9_DeletedWithUploadIdAnswers200 ==
    DeletedWithUploadId =>
        /\ Cur.resp = 200
        /\ Cur.existing # <<>> =>
             /\ OpsNamed("delete") # {}
             /\ \A k \in OpsNamed("delete") :
                  Cur.ops[k].out = "ok" =>
                      {r \in videos : r.id = Cur.existing[1].id} = {}

\* C9 witness: the row was found, the thumbnail cleanup raised, and the row
\* was deleted all the same.
C9_Witness ==
    /\ DeletedWithUploadId
    /\ Cur.existing # <<>>
    /\ \E k \in OpsNamed("deleteThumbnail") : Cur.ops[k].out = "throw"
    /\ \E k \in OpsNamed("delete") : Cur.ops[k].out = "ok"
    /\ RowsOfUpload(videos, CurData.upload_id) = {}
    /\ Cur.resp = 200

\* C10: once a row's muxAssetId is set, no step changes it to another value.
C10_AssetIdNeverOverwritten ==
    [][\A r \in videos : \A r2 \in videos' :
          (r.id = r2.id /\ r.muxAssetId # Null) => r2.muxAssetId = r.muxAssetId]_vars


\* The current event lacks its correlation key or a field its kind requires.
RequiredFieldMissing ==
    \/ /\ CurPayload.type = "video.asset.created"
       /\ ~Truthy(CurData.upload_id) \/ ~Truthy(CurData.id) \/ ~Truthy(CurData.status)
    \/ /\ CurPayload.type = "video.asset.ready"
       /\ \/ ~Truthy(CurData.upload_id) \/ ~Truthy(CurData.id) \/ ~Truthy(CurData.status)
          \/ Len(CurData.playback_ids) = 0 \/ CurData.duration = <<>>
    \/ /\ CurPayload.type = "video.asset.errored"
       /\ ~Truthy(CurData.upload_id) \/ ~Truthy(CurData.status)
    \/ /\ CurPayload.type = "video.asset.track.ready"
       /\ ~Truthy(CurData.asset_id) \/ ~Truthy(CurData.id) \/ ~Truthy(CurData.status)

\* C11: an authentic created, ready, errored or track.ready event that lacks
\* its correlation key or a required field of its kind is answered 400 before
\* any call on the record store or the asset storage.
C11_MissingFieldIs400BeforeLookup ==
    (Cur.pc # "idle" /\ Authentic /\ RequiredFieldMissing)
    => (Cur.pc = "done" /\ Cur.resp = 400 /\ Cur.ops = <<>> /\ videos = Cur.pre)


\* The event kinds the switch has a case for, written out as in the claim.
KindsWithACase ==
    {"video.asset.created", "video.asset.ready", "video.asset.errored",
     "video.asset.deleted", "video.asset.track.ready"}

\* The current request is an authentic event of a kind the switch has no
\* case for.
UnhandledEvent ==
    /\ Cur.pc # "idle"
    /\ Authentic
    /\ Truthy(CurPayload.type)
    /\ CurPayload.type \notin KindsWithACase

\* C12: an authentic event of an unhandled kind is answered 200 at once, with
\* no call on the record store or the asset storage and the table unchanged.
C12_UnhandledKindAcknowledged ==
    UnhandledEvent =>
        (Cur.pc = "done" /\ Cur.resp = 200 /\ Cur.ops = <<>> /\ videos = Cur.pre)

\* C12 witness: a video.upload.created event was answered 200 while rows that
\* hold mirrored files existed.
C12_Witness ==
    /\ UnhandledEvent
    /\ Cur.resp = 200
    /\ \E r \in videos : Truthy(r.thumbnailKey)
    /\ files # {}


\* The statuses the handler answers with.
ResponseStatuses == {200, 400, 401, 404, 500}

\* The calls whose error reaches a catch block that answers; an error of a
\* mirror or of a file deletion is swallowed next to the call.
AnsweringCalls == {"headers", "select", "update", "delete", "fallbackDelete"}

\* Call k of the current invocation raised into a catch block that answers.
RaisedAt(k) == Cur.ops[k].out = "throw" /\ Cur.ops[k].op \in AnsweringCalls

\* C13: every invocation ends with exactly one response, of status 200, 400,
\* 401, 404 or 500: no response exists while the handler runs, the response
\* made at its end is one of the five, and a call that raises is the last
\* call of the invocation and is answered 500, or 200 inside the deleted case.
C13_ExactlyOneKnownResponse ==
    /\ Cur.pc # "done" => Cur.resp = 0
    /\ Cur.pc = "done" => Cur.resp \in ResponseStatuses
    /\ \A k \in 1..Len(Cur.ops) :
         RaisedAt(k) =>
            /\ k = Len(Cur.ops)
            /\ Cur.pc = "done"
            /\ Cur.resp = IF Cur.ops[k].op = "headers" THEN 500 ELSE CatchStatus(CurPayload)

\* An update raised after both mirrors had stored a file, and was answered 500.
C13_Witness ==
    /\ Cur.pc = "done" /\ Cur.resp = 500
    /\ Len(Cur.ops) = 4
    /\ Cur.ops[2].out = "ok" /\ Cur.ops[3].out = "ok"
    /\ RaisedAt(4) /\ Cur.ops[4].op = "update"


\* The request was answered before any call on a collaborator, and the table
\* is as the request found it.
AnsweredUntouched(code) ==
    /\ Cur.pc = "done" /\ Cur.resp = code
    /\ Cur.ops = <<>>
    /\ videos = Cur.pre

\* C14: when the signing secret is not configured, every request, whatever its
\* header and body, is answered 500 with no call on a collaborator and the
\* table unchanged.
C14_NoSecretIs500 ==
    (Cur.pc # "idle" /\ SIGNING_SECRET = Absent) =>
        (AnsweredUntouched(500) /\ files = {})

\* Without a secret, a request with no signature header and a body that is no
\* JSON arrived while the table held a row, and was answered 500.
C14_Witness ==
    /\ SIGNING_SECRET = Absent
    /\ Cur.pc = "done" /\ Cur.resp = 500
    /\ Cur.req.sig = <<>> /\ Cur.req.body.kind = "malformed"
    /\ videos # {}

\* The five checks before the switch, each read off the request itself.
SecretMissing == SIGNING_SECRET = Absent
HeaderMissing == Cur.req.sig = <<>>
BodyUnparsable == Cur.req.body.kind # "json"
SignatureRejected ==
    Cur.req.sig # <<[key |-> SIGNING_SECRET, signed |-> [Cur.req.body EXCEPT !.ws = 0]]>>
TypeMissing == ~Truthy(Cur.req.body.payload.type)

\* C16: the checks run in the order secret (500), header (401), body parse
\* (400), signature (401), event type (400); the first one that fails decides
\* the response, and a request that passes all five reaches the switch.
C16_FirstFailingCheckDecides ==
    Cur.pc # "idle" =>
        IF SecretMissing THEN AnsweredUntouched(500)
        ELSE IF HeaderMissing THEN AnsweredUntouched(401)
        ELSE IF BodyUnparsable THEN AnsweredUntouched(400)
        ELSE IF SignatureRejected THEN AnsweredUntouched(401)
        ELSE IF TypeMissing THEN AnsweredUntouched(400)
        ELSE Dispatched(Cur)

\* A request under a foreign signature whose payload has no type either was
\* answered 401, the status of the earlier of the two checks.
C16_Witness ==
    /\ ~SecretMissing /\ ~HeaderMissing /\ ~BodyUnparsable
    /\ SignatureRejected /\ TypeMissing
    /\ Cur.pc = "done" /\ Cur.resp = 401


\* C15: in every reachable state the duration of every record is a
\* non-negative integer, whatever duration a video.asset.ready event carries.
C15_DurationNeverNegative ==
    \A r \in videos : r.duration \in Nat


\* This step is the update statement of the current invocation, and it returned.
UpdateApplied ==
    /\ Cur.pc = "update"
    /\ inv'[SeqProc].pc = "done"
    /\ inv'[SeqProc].ops[Len(inv'[SeqProc].ops)].out = "ok"

\* The events whose case writes muxStatus.
StatusEvents == {"video.asset.created", "video.asset.ready", "video.asset.errored"}

\* What a ready event writes besides status and asset id.
SamePlayback(r, r2) ==
    /\ r2.muxPlaybackId = r.muxPlaybackId
    /\ r2.duration = r.duration
    /\ r2.thumbnailKey = r.thumbnailKey /\ r2.thumbnailUrl = r.thumbnailUrl
    /\ r2.previewKey = r.previewKey /\ r2.previewUrl = r.previewUrl

\* C17: no ordering guard. The update of a created, ready or errored event
\* sets muxStatus of the record of its upload to the status it carries,
\* whatever the record held, and nothing else ever changes muxStatus, so
\* muxStatus is the status of the last such event applied; the update of a
\* created event also sets muxAssetId to the id it carries and leaves the
\* playback id, the duration and the mirrored locations as they were.
C17_LastAppliedEventDecidesStatus ==
    [][\A r \in videos : \A r2 \in videos' :
         r2.id = r.id =>
            IF /\ UpdateApplied
               /\ CurPayload.type \in StatusEvents
               /\ r.muxUploadId = CurData.upload_id
            THEN /\ Truthy(CurData.status) => r2.muxStatus = CurData.status
                 /\ CurPayload.type = "video.asset.created" =>
                       /\ Truthy(CurData.id) => r2.muxAssetId = CurData.id
                       /\ SamePlayback(r, r2)
            ELSE r2.muxStatus = r.muxStatus]_vars

\* A created event was applied right after a ready event of the same upload
\* that named another asset: the record has the created event's status and
\* asset id, and the ready event's playback id and thumbnail.
C17_Witness ==
    /\ prev # <<>>
    /\ prev[1].payload.type = "video.asset.ready"
    /\ Cur.pc = "done" /\ Cur.resp = 200
    /\ CurPayload.type = "video.asset.created"
    /\ CurData.upload_id = prev[1].payload.data.upload_id
    /\ Truthy(CurData.id) /\ CurData.id # prev[1].payload.data.id
    /\ \E r \in videos :
         /\ r.muxUploadId = CurData.upload_id
         /\ r.muxStatus = "preparing" /\ r.muxAssetId = CurData.id
         /\ r.muxPlaybackId = "pb_1" /\ Truthy(r.thumbnailKey)

\* C18: the track status is orthogonal to the main state. The update of a
\* track.ready event changes muxTrackId, muxTrackStatus and updatedAt of the
\* records holding its asset id and nothing else in the table; no other step,
\* and so no created, ready or errored event, changes muxTrackId or
\* muxTrackStatus of a record.
C18_TrackOrthogonal ==
    [][\A r \in videos : \A r2 \in videos' :
         r2.id = r.id =>
            IF UpdateApplied /\ CurPayload.type = "video.asset.track.ready"
            THEN IF r.muxAssetId = CurData.asset_id
                 THEN /\ [r2 EXCEPT !.muxTrackId = r.muxTrackId,
                                    !.muxTrackStatus = r.muxTrackStatus,
                                    !.updatedAt = r.updatedAt] = r
                      /\ Truthy(CurData.id) => r2.muxTrackId = CurData.id
                      /\ Truthy(CurData.status) => r2.muxTrackStatus = CurData.status
                 ELSE r2 = r
            ELSE /\ r2.muxTrackId = r.muxTrackId
                 /\ r2.muxTrackStatus = r.muxTrackStatus]_vars

\* A track.ready event was applied to a record that a ready event had filled.
C18_Witness ==
    /\ Cur.pc = "done" /\ Cur.resp = 200
    /\ CurPayload.type = "video.asset.track.ready"
    /\ \E r \in videos :
         /\ r.muxAssetId = CurData.asset_id
         /\ r.muxTrackId = "track_1" /\ r.muxTrackStatus = "ready"
         /\ r.muxStatus = "ready" /\ r.muxPlaybackId = "pb_1"
         /\ Truthy(r.previewKey)


\* A mirrored location is unset, or a key with the url of that very file.
PairComplete(key, url) ==
    \/ key = Null /\ url = Null
    \/ Truthy(key) /\ url = FileUrl(key)

\* C19: in every reachable state, under any interleaving of invocations and
\* any outcomes of the mirrors, the thumbnail location and the preview
\* location of every record are each unset or a key and url of one mirror
\* result.
C19_LocationsArePairs ==
    \A r \in videos :
        /\ PairComplete(r.thumbnailKey, r.thumbnailUrl)
        /\ PairComplete(r.previewKey, r.previewUrl)

\* Two ready events of one upload ran at once, both from the same table; one
\* mirrored only the thumbnail, the other only the preview, and the record
\* holds the thumbnail of the one and the preview of the other.
C19_Witness ==
    /\ inv["p1"].pc = "done" /\ inv["p1"].resp = 200
    /\ inv["p2"].pc = "done" /\ inv["p2"].resp = 200
    /\ PayloadOf(inv["p1"]).type = "video.asset.ready"
    /\ PayloadOf(inv["p2"]).type = "video.asset.ready"
    /\ PayloadOf(inv["p1"]).data.upload_id = PayloadOf(inv["p2"]).data.upload_id
    /\ inv["p1"].pre = inv["p2"].pre
    /\ Truthy(inv["p1"].loc.thumbnailKey) /\ ~Truthy(inv["p1"].loc.previewKey)
    /\ ~Truthy(inv["p2"].loc.thumbnailKey) /\ Truthy(inv["p2"].loc.previewKey)
    /\ \E r \in videos :
         /\ r.muxUploadId = PayloadOf(inv["p1"]).data.upload_id
         /\ r.thumbnailKey = inv["p1"].loc.thumbnailKey
         /\ r.previewKey = inv["p2"].loc.previewKey


\* No two records hold the same non-null muxAssetId.
UniqueAssets ==
    \A r1 \in videos : \A r2 \in videos :
        (r1.muxAssetId # Null /\ r1.muxAssetId = r2.muxAssetId) => r1 = r2

\* The update of a track.ready event changes at most one record.
TrackReadyTouchesOne ==
    (UpdateApplied /\ CurPayload.type = "video.asset.track.ready")
        => Cardinality(videos \ videos') <= 1

ReadyMirroring == Cur.pc \in {"thumb", "preview", "awaitThumbnail", "awaitPreview"}

\* C21: a ready invocation whose lookup found the record eventually answers
\* 200, also when a mirror call never completes.
C21_ReadyEventuallyAnswers ==
    ReadyMirroring ~> (Cur.pc = "done" /\ Cur.resp = 200)


\* The events whose case correlates by data.upload_id.
UploadCorrelated ==
    {"video.asset.created", "video.asset.ready", "video.asset.errored",
     "video.asset.deleted"}

\* Every record after the step is a record from before it, with the id and
\* the muxUploadId it had.
IdentityKept ==
    \A r2 \in videos' : \E r \in videos :
        r.id = r2.id /\ r.muxUploadId = r2.muxUploadId

\* A step of an invocation handling an event correlated by upload_id leaves
\* the records of every other upload as they are.
OtherUploadsKept ==
    \A p \in Procs :
        (/\ inv'[p] # inv[p]
         /\ inv[p].pc \notin {"idle", "done"}
         /\ PayloadOf(inv[p]).type \in UploadCorrelated)
        => \A r \in videos :
              r.muxUploadId # PayloadOf(inv[p]).data.upload_id => r \in videos'

\* C22: no step changes the id or the muxUploadId of a record, and an event
\* correlated by upload_id u neither changes nor deletes a record whose
\* muxUploadId is not u, whichever store or storage call raises.
C22_FrameOnUploadReference ==
    [][IdentityKept /\ OtherUploadsKept]_vars

\* With two records in the table, a deleted event of one upload removed its
\* record and a file of it, and the record of the other upload is as it was.
C22_Witness ==
    /\ Cur.pc = "done" /\ Cur.resp = 200
    /\ CurPayload.type = "video.asset.deleted"
    /\ Cardinality(Cur.pre) = 2
    /\ \E r \in Cur.pre : r.muxUploadId = CurData.upload_id /\ Truthy(r.thumbnailKey)
    /\ Cardinality(videos) = 1
    /\ \A r \in videos : r \in Cur.pre /\ r.muxUploadId # CurData.upload_id


\* The events whose case ends with an update statement.
UpdatingEvents ==
    {"video.asset.created", "video.asset.ready", "video.asset.errored",
     "video.asset.track.ready"}

\* C23: under concurrent invocations, an updating event answered 200 had its
\* update applied to an existing record: the update statement of an
\* invocation that answered 200 touched at least one row.
C23_AcknowledgedUpdateApplied ==
    \A p \in Procs :
        (/\ inv[p].pc = "done" /\ inv[p].resp = 200
         /\ Dispatched(inv[p])
         /\ PayloadOf(inv[p]).type \in UpdatingEvents)
        => /\ inv[p].ops # <<>>
           /\ inv[p].ops[Len(inv[p].ops)].op = "update"
           /\ inv[p].ops[Len(inv[p].ops)].n >= 1


\* A record names the file as its thumbnail or its preview.
Referenced(key) ==
    \E r \in videos : r.thumbnailKey = key \/ r.previewKey = key

\* No invocation is under way.
Quiescent == \A p \in Procs : inv[p].pc \in {"idle", "done"}

\* C24: no mirrored file is orphaned. When no call on the storage fails,
\* then between invocations every file the flow stored and has not deleted
\* is the thumbnail or the preview of an existing record.
C24_NoOrphanedFile ==
    Quiescent => \A key \in files : Referenced(key)


\* No call of the current invocation on the record store raised.
StoreAnswered ==
    \A k \in 1..Len(Cur.ops) :
        Cur.ops[k].op \in {"select", "delete", "fallbackDelete"} => Cur.ops[k].out = "ok"

NoRecordAppears ==
    \A r2 \in videos' : RowsOfUpload(videos, r2.muxUploadId) # {}

====
